---- MODULE Spec2Model ----
(***************************************************************************)
(* Model of the tender ingestion pipeline of bid-finder:                   *)
(*   server/scrape.js      generateTags, runInternal, run, runAll          *)
(*   server/htmlParser.js  clean, the five parsers, parseTenders           *)
(*   server/db.js          tenders schema, insertTender,                   *)
(*                         insertOrganisation, setLastScraped,             *)
(*                         updateSourceStats, insertSource, updateSource,  *)
(*                         deleteSource, setCronSchedule, reset            *)
(*   server/index.js       scheduleJob (cron trigger), GET /scrape,        *)
(*                         GET /scrape-stream, GET /scrape-all(-stream),   *)
(*                         POST /sources, PUT and DELETE /sources/:key,    *)
(*                         GET /test-source, POST /admin/cron,             *)
(*                         POST /admin/reset-db                            *)
(* Specifications: Spec (cron and one manual run, overlapping), SpecAll    *)
(* (runAll), SpecHttp (the routes), SpecSources (the routes that manage    *)
(* sources), SpecCron (rescheduling), SpecReset (reset and insertTender),  *)
(* SpecCb (a run whose onProgress consumer raises), SpecDb (insertTender   *)
(* called directly), SpecPaging (the next-page hint), SpecParse and        *)
(* SpecTags (parseTenders and generateTags on their own).                  *)
(* Every action is the code that runs between two awaits of a run or of a  *)
(* request handler; the store is shared by all runs and requests.          *)
(***************************************************************************)
EXTENDS Integers, Sequences, FiniteSets, TLC

\* ------------------------------------------------------------------ bounds
MaxFetches == 3      \* pages one run may fetch before the model stops following it
MaxRunsTotal == 2    \* runs started in one behaviour
MaxDirect == 3       \* direct calls of db.insertTender (as the db tests make them)
MaxBlocks == 2       \* result blocks of a page handed to parseTenders
MaxRequests == 2     \* HTTP requests made in one behaviour
MaxRaiseAt == 4      \* the latest onProgress call of a run at which a consumer raises
MaxEls == 2          \* link and anchor elements of a page searched for a next-page hint

NULL == "NULL"

\* ------------------------------------------------------------ text and tags
\* Text is a sequence of one-character strings.
LowerChar(c) ==
  CASE c = "N" -> "n" [] c = "H" -> "h" [] c = "S" -> "s"
    [] c = "I" -> "i" [] c = "T" -> "t" [] c = "M" -> "m"
    [] c = "R" -> "r" [] c = "E" -> "e" [] c = "D" -> "d" [] c = "C" -> "c"
    [] c = "U" -> "u" [] OTHER -> c

\* toLowerCase that leaves the case as it is
keepCase(s) == s

\* String.prototype.toLowerCase
toLowerCase(s) == [n \in 1..Len(s) |-> LowerChar(s[n])]

\* String.prototype.includes: k occurs in text as a contiguous substring
includes(text, k) ==
  \E off \in 0..(Len(text) - Len(k)) :
     \A n \in 1..Len(k) : text[off + n] = k[n]

\* config.tagRules as Object.entries lists it: declaration order.  isArray
\* is false for a rule whose keywords value is not an array (TAG_RULES is
\* parsed from the environment without a check of its shape).
defaultTagRules ==
  << [tag |-> "it",         isArray |-> TRUE, keywords |-> << <<"i","t">> >>],
     [tag |-> "healthcare", isArray |-> TRUE,
      keywords |-> << <<"n","h","s">>, <<"M","e","d">> >>] >>

MalformedTagRules ==
  << [tag |-> "it", isArray |-> FALSE, keywords |-> << >>] >>

TagError == << "TypeError" >>

RECURSIVE TagsFrom(_, _, _)
TagsFrom(text, rules, n) ==
  IF n > Len(rules) THEN << >>
  ELSE LET kw == rules[n].keywords
           hit == \E j \in 1..Len(kw) : includes(text, toLowerCase(kw[j]))
       IN  (IF hit THEN << rules[n].tag >> ELSE << >>) \o TagsFrom(text, rules, n + 1)

\* generateTags(title, desc): the tags of the rules with a matching keyword,
\* or TagError when keywords.some is not callable
generateTags(title, desc, rules) ==
  IF \E n \in 1..Len(rules) : ~rules[n].isArray
  THEN TagError
  ELSE TagsFrom(toLowerCase(title \o << " " >> \o desc), rules, 1)

\* rule sets and texts generateTags is called with
TagRuleSets ==
  { defaultTagRules,
    MalformedTagRules,
    << >>,
    << [tag |-> "healthcare", isArray |-> TRUE,
        keywords |-> << <<"n","h","s">>, <<"N","H">> >>],
       [tag |-> "it", isArray |-> TRUE, keywords |-> << <<"I","T">> >>],
       [tag |-> "none", isArray |-> TRUE, keywords |-> << >>] >>,
    << [tag |-> "any", isArray |-> TRUE, keywords |-> << << >> >>],
       [tag |-> "two words", isArray |-> TRUE, keywords |-> << <<"t"," ","n">> >>] >> }

Texts ==
  { << >>, << "N", "H", "S" >>, << "I", "T" >>, << "R", "d" >>, << "n", "h" >>,
    << "s" >>, << "m", "E", "d", "i", "t" >> }

\* Array.prototype.join(',')
RECURSIVE join(_)
join(tags) ==
  IF Len(tags) = 0 THEN ""
  ELSE IF Len(tags) = 1 THEN tags[1]
  ELSE tags[1] \o "," \o join(Tail(tags))

\* ------------------------------------------------------------------- URLs
\* An href is relative, absolute, or not parseable as a URL.
Rel(p)    == [kind |-> "rel", host |-> NULL, path |-> p]
Abs(h, p) == [kind |-> "abs", host |-> h, path |-> p]
BadHref   == [kind |-> "bad", host |-> NULL, path |-> NULL]

InvalidUrl == << "ERR_INVALID_URL" >>

\* new URL(href, base).href: a relative href takes the host of the base, an
\* absolute one keeps its own, anything else throws
ResolveUrl(href, base) ==
  CASE href.kind = "rel" -> << base, href.path >>
    [] href.kind = "abs" -> << href.host, href.path >>
    [] OTHER -> InvalidUrl

\* ---------------------------------------------------- sources and the web
T_NHS == << "N", "H", "S" >>
T_IT  == << "I", "T" >>
T_Rd  == << "R", "d" >>

\* An Extracted Record as the parsers of htmlParser.js push it
Rec(title, link, desc, organisation, ocid) ==
  [title |-> title, link |-> link, desc |-> desc,
   organisation |-> organisation, ocid |-> ocid]

R1 == Rec(T_NHS, Rel("/t1"),      << >>,  "o1", "ocds-1")
R3 == Rec(T_Rd,  Rel("/t3"),      T_IT,   "",   "")
R4 == Rec(T_Rd,  Rel("/t4"),      << >>,  "",   "")
R5 == Rec(T_IT,  Rel("/t5"),      << >>,  "o2", "ocds-1")
R6 == Rec(T_Rd,  BadHref,         << >>,  "",   "")
R7 == Rec(T_NHS, Abs("h1","/t3"), << >>,  "",   "ocds-1")

NoNext == [kind |-> "none", host |-> NULL, path |-> NULL]

NoPage == [recs |-> << >>, next |-> NoNext]

\* What the remote sites answer: the records parseTenders extracts from the
\* page and the href of its next-page hint (NoNext when it has none).
\*   h1: /p1 -> /p2           two listing pages
\*   h2: /p1 -> /p2 -> /p1    next links that form a cycle
\*   h2: /q1                  one page, its last record has a malformed href
Web(url) ==
  CASE url = << "h1", "/p1" >> -> [recs |-> << R1 >>,         next |-> Rel("/p2")]
    [] url = << "h1", "/p2" >> -> [recs |-> << R3 >>,         next |-> NoNext]
    [] url = << "h2", "/p1" >> -> [recs |-> << R4 >>,         next |-> Rel("/p2")]
    [] url = << "h2", "/p2" >> -> [recs |-> << >>,            next |-> Abs("h2", "/p1")]
    [] url = << "h2", "/q1" >> -> [recs |-> << R5, R7, R6 >>, next |-> NoNext]
    [] OTHER -> NoPage

\* config.sources
SourceKeys == { "default", "b", "c" }

sources ==
  [k \in SourceKeys |->
     CASE k = "default" -> [label |-> "CF", url |-> << "h1", "/p1" >>, base |-> "h1"]
       [] k = "b"       -> [label |-> "B",  url |-> << "h2", "/p1" >>, base |-> "h2"]
       [] OTHER         -> [label |-> "C",  url |-> << "h2", "/q1" >>, base |-> "h2"]]

\* the source runInternal builds when run() is called without one
\* (config.scrapeUrl, config.scrapeBase; it has no label)
fallbackSource ==
  [label |-> NULL, url |-> sources["default"].url, base |-> sources["default"].base]

\* ------------------------------------------------------------- htmlParser
\* Markup is a sequence of one-character strings in which "<b>" stands for
\* one tag and " " for white space.
RECURSIVE StripTags(_)
StripTags(str) ==
  IF Len(str) = 0 THEN << >>
  ELSE (IF Head(str) = "<b>" THEN << >> ELSE << Head(str) >>) \o StripTags(Tail(str))

\* str.replace(/\s+/g, ' '): runs of white space become one space
RECURSIVE Collapse(_)
Collapse(str) ==
  IF Len(str) < 2 THEN str
  ELSE IF str[1] = " " /\ str[2] = " " THEN Collapse(Tail(str))
  ELSE << str[1] >> \o Collapse(Tail(str))

\* String.prototype.trim
RECURSIVE trim(_)
trim(str) ==
  IF Len(str) = 0 THEN str
  ELSE IF str[1] = " " THEN trim(Tail(str))
  ELSE IF str[Len(str)] = " " THEN trim(SubSeq(str, 1, Len(str) - 1))
  ELSE str

\* clean = str => str.replace(/<[^>]*>/g, '').replace(/\s+/g, ' ').trim()
clean(str) == trim(Collapse(StripTags(str)))

\* What the regular expressions of a parser find in one result block:
\*   h2        the text of <h2>...</h2>, when there is one
\*   a         the first anchor with a non-empty href: its href, and its text
\*             when <a ...>text</a> matches on one line (full)
\*   rssTitle  the text of <title>, rssLink the text of <link> (RSS items)
\* A block has no <p>, date, organisation or ocid markup.
NoEl == [present |-> FALSE, text |-> << >>]
El(text) == [present |-> TRUE, text |-> text]
NoAnchor == [present |-> FALSE, full |-> FALSE, href |-> << >>, text |-> << >>]
Anchor(href, text, full) == [present |-> TRUE, full |-> full, href |-> href, text |-> text]

Block(h2, a, rssTitle, rssLink) ==
  [h2 |-> h2, a |-> a, rssTitle |-> rssTitle, rssLink |-> rssLink]

H_t1 == << "/", "t", "1" >>
T_Contact == << "C", "o", "n", "t", "a", "c", "t", " ", "u", "s" >>

Blocks ==
  { Block(NoEl, Anchor(H_t1, T_NHS, TRUE), NoEl, NoEl),            \* <a href="/t1">NHS</a>
    Block(NoEl, Anchor(H_t1, << >>, TRUE), NoEl, NoEl),            \* <a href="/t1"></a>
    Block(NoEl, Anchor(H_t1, << "<b>", " " >>, TRUE), NoEl, NoEl), \* <a href="/t1"><img> </a>
    Block(El(T_IT), NoAnchor, NoEl, NoEl),                         \* <h2>IT</h2>, no anchor
    Block(El(T_IT), Anchor(H_t1, << >>, FALSE), NoEl, NoEl),       \* <h2>IT</h2>, anchor over two lines
    Block(NoEl, Anchor(H_t1, T_Contact, TRUE), NoEl, NoEl),        \* <a href="/t1">Contact us</a>
    Block(NoEl, NoAnchor, El(T_IT), El(H_t1)),                     \* <title>IT</title><link>/t1</link>
    Block(NoEl, NoAnchor, El(T_IT), El(<< " " >>)),                \* <link> </link>
    Block(NoEl, NoAnchor, NoEl, El(H_t1)) }                        \* an item without <title>

\* the record a parser pushes for a block
Parsed(title, href) == Rec(title, href, << >>, "", "")

\* one turn of the loop of parseContractsFinder: the records it pushes
ContractsFinderBlock(b) ==
  LET link  == b.a.present /\ b.a.full
      title == IF b.h2.present THEN clean(b.h2.text)
               ELSE IF link THEN clean(b.a.text) ELSE << >>
      href  == IF b.a.present THEN b.a.href ELSE << >>
  IN  IF Len(href) > 0 /\ Len(title) > 0 THEN << Parsed(title, href) >> ELSE << >>

\* one turn of the loop of parseSell2Wales
Sell2WalesBlock(b) ==
  IF ~(b.a.present /\ b.a.full) THEN << >>
  ELSE IF Len(clean(b.a.text)) > 0 /\ Len(b.a.href) > 0
       THEN << Parsed(clean(b.a.text), b.a.href) >> ELSE << >>

\* one turn of the loop of parseUkri: pushed unless the title is 'contact us'
UkriBlock(b) ==
  IF ~(b.a.present /\ b.a.full) THEN << >>
  ELSE IF ~includes(toLowerCase(clean(b.a.text)), toLowerCase(T_Contact))
       THEN << Parsed(clean(b.a.text), b.a.href) >> ELSE << >>

\* one turn of the loop of parseEuSupply: every row with an anchor is pushed
EuSupplyBlock(b) ==
  IF ~(b.a.present /\ b.a.full) THEN << >>
  ELSE << Parsed(trim(b.a.text), b.a.href) >>

\* one turn of the loop of parseRss
RssBlock(b) ==
  LET title == clean(b.rssTitle.text)
      href  == clean(b.rssLink.text)
  IN  IF Len(title) > 0 /\ Len(href) > 0 THEN << Parsed(title, href) >> ELSE << >>

Sites == { "contractsFinder", "sell2wales", "ukri", "eusupply", "rss", "other" }

\* parseTenders(html, site): the parser of the site over the blocks of the page
RECURSIVE parseTenders(_, _)
parseTenders(html, site) ==
  IF Len(html) = 0 THEN << >>
  ELSE (CASE site = "eusupply"   -> EuSupplyBlock(Head(html))
          [] site = "sell2wales" -> Sell2WalesBlock(Head(html))
          [] site = "ukri"       -> UkriBlock(Head(html))
          [] site = "rss"        -> RssBlock(Head(html))
          [] OTHER               -> ContractsFinderBlock(Head(html)))
       \o parseTenders(Tail(html), site)

\* the pages of at most MaxBlocks blocks
Pages == UNION { [1..n -> Blocks] : n \in 0..MaxBlocks }

\* ------------------------------------------------------------------ store
\* Conflicts with the UNIQUE constraint on link left out
ConflictsOcidOnly(table, row) ==
  \E t \in table : row.ocid # NULL /\ t.ocid = row.ocid

\* Conflicts with the UNIQUE constraint on ocid left out
ConflictsLinkOnly(table, row) ==
  \E t \in table : t.link = row.link

\* UNIQUE(link), UNIQUE(ocid): a new row conflicts with a stored row of the
\* same link, or of the same ocid unless that ocid is NULL
Conflicts(table, row) ==
  \E t \in table :
     \/ t.link = row.link
     \/ (row.ocid # NULL /\ t.ocid = row.ocid)

\* INSERT OR IGNORE INTO tenders: this.changes
Changes(table, row) == IF Conflicts(table, row) THEN 0 ELSE 1

\* InsertOrIgnore as INSERT OR REPLACE: the stored row of the same link gives
\* way to the new one
InsertOrReplace(table, row) ==
  { t \in table : t.link # row.link } \cup { row }

\* INSERT OR IGNORE INTO tenders: the table afterwards
InsertOrIgnore(table, row) ==
  IF Conflicts(table, row) THEN table ELSE table \cup { row }

TenderRow(id, title, link, ocid, source, scrapedAt, tags) ==
  [id |-> id, title |-> title, link |-> link, ocid |-> ocid,
   source |-> source, scraped_at |-> scrapedAt, tags |-> tags]

\* updateSourceStats whose update sets total to the last added count
updateSourceStatsOverwrite(stats, key, ts, added) ==
  [k \in DOMAIN stats \cup { key } |->
     IF k = key
     THEN [last_scraped |-> ts, last_added |-> added, total |-> added]
     ELSE stats[k]]

\* INSERT INTO source_stats ... ON CONFLICT(key) DO UPDATE
\* (stats maps the keys that have a row to that row)
updateSourceStats(stats, key, ts, added) ==
  IF key \in DOMAIN stats
  THEN [stats EXCEPT ![key] =
          [last_scraped |-> ts, last_added |-> added, total |-> @.total + added]]
  ELSE [k \in DOMAIN stats \cup { key } |->
          IF k = key
          THEN [last_scraped |-> ts, last_added |-> added, total |-> added]
          ELSE stats[k]]

\* ------------------------------------------------------------------ state
Procs == { "cron", "manual" }    \* scheduleJob's callback; GET /scrape-stream

NoUrl == << >>                   \* nextUrl = null
NoResult == [returned |-> FALSE, added |-> 0, error |-> FALSE]

VARIABLES
  tenders,        \* rows of the tenders table
  nextId,         \* AUTOINCREMENT of tenders.id
  lastScraped,    \* metadata.last_scraped; 0 while there is no such row
  sourceStats,    \* source_stats: key -> row, for the keys that have one
  organisations,  \* rows of the organisations table: <<name, type>>
  tagRules,       \* config.tagRules
  clock,          \* what new Date() returns next
  run,            \* the local variables of each runInternal invocation
  events,         \* what each run has passed to onProgress, in call order
  started,        \* number of runs started
  direct,         \* number of direct db.insertTender calls made
  lastCall,       \* arguments and result of the last direct db.insertTender call
  obs,            \* per run: which of its steps failed, what it fetched (observation)
  eff,            \* per run: what its steps did to the store (observation)
  storedFrom,     \* per row stored by a run: its link and the ocid extracted with it
  completed,      \* the runs that returned without error, in order (observation)
  runAll,         \* the local variables of the runAll invocation
  allLog,         \* what runAll has passed to its onProgress, in call order
  cfgSources,     \* config.sources: key -> source, for the keys of keyOrder
  keyOrder,       \* the keys of config.sources in the order Object.entries lists them
  dbSources,      \* rows of the sources table: key -> source
  sourceStatus,   \* sourceStatus of index.js: key -> "ok" | "error"
  resp,           \* the last HTTP request answered and its response
  reqs,           \* number of HTTP requests made
  fn,             \* the last call of a pure function: its arguments and result
  pending,        \* requests awaiting their database statement, in the order issued
  jobs,           \* the cron jobs created so far; the last one is scheduledJob
  cronSchedule,   \* config.cronSchedule
  dbCron,         \* metadata.cron_schedule; NULL while there is no such row
  tenderColumns,  \* the columns of the tenders table
  resets          \* number of db.reset() calls completed

store == << tenders, nextId, lastScraped, sourceStats, organisations >>
vars == << tenders, nextId, lastScraped, sourceStats, organisations, tagRules,
           clock, run, events, started, direct, lastCall, obs, eff, storedFrom,
           completed, runAll, allLog, cfgSources, keyOrder, dbSources, sourceStatus,
           resp, reqs, fn, pending, jobs, cronSchedule, dbCron, tenderColumns,
           resets >>

\* the cron job and its schedule, in memory and persisted
admin == << jobs, cronSchedule, dbCron >>

\* the layout of the tenders table
schema == << tenderColumns, resets >>

\* what the routes of index.js keep besides the store, and the pure calls
http == << cfgSources, keyOrder, dbSources, sourceStatus, resp, reqs, fn, pending,
          admin, schema >>

Idle ==
  [pc |-> "idle", sourceKey |-> "default", src |-> fallbackSource, cb |-> FALSE,
   nextUrl |-> NoUrl, page |-> 1, allTenders |-> << >>, i |-> 0, count |-> 0,
   total |-> 0, runTs |-> 0, report |-> "none", raiseAt |-> 0,
   result |-> NoResult]

NoObs ==
  [fetched |-> << >>, fetchFailed |-> FALSE, recFault |-> FALSE,
   storeErrs |-> { }, attempts |-> 0, tsFault |-> FALSE, tsSaved |-> FALSE,
   orgTried |-> { }, orgErrs |-> { }, notPresent |-> { }, cbFault |-> FALSE]

\* runAll before it is called
NoAll == [pc |-> "idle", cb |-> FALSE, keys |-> << >>, idx |-> 0, results |-> << >>]

NoBody == [key |-> "", label |-> "", url |-> << >>, base |-> ""]

\* status 0: not answered yet; effect: whether the handler changed the
\* configured sources or started a scrape or a fetch (observation)
NoResp == [route |-> "none", authed |-> FALSE, body |-> NoBody, status |-> 0,
           effect |-> FALSE]

NoFn == [op |-> "none", arg |-> << >>, out |-> << >>]

\* config.cronSchedule when CRON_SCHEDULE is not set
DefaultCron == "0 6 * * *"

\* a job made by cron.schedule(expression, callback)
Job(schedule) == [schedule |-> schedule, running |-> TRUE]

\* the columns INSERT OR IGNORE INTO tenders (...) names
InsertColumns ==
  { "title", "link", "ocid", "date", "description", "source", "scraped_at",
    "tags", "cpv", "open_date", "deadline", "customer", "address", "country",
    "eligibility" }

\* CREATE TABLE IF NOT EXISTS tenders at startup, and the columns added
\* to older tables
StartupColumns == { "id" } \cup InsertColumns

\* CREATE TABLE tenders of db.reset()
ResetColumns ==
  { "id", "title", "link", "ocid", "date", "description", "source",
    "scraped_at", "tags" }

NoEff == [wrote |-> FALSE, insertedBy |-> 0]

NoCall == [link |-> << >>, ocid |-> NULL, title |-> << >>, ret |-> "none"]

\* a progress event; the fields a step does not carry are left at their default
Ev(step, count, title, index, total, inserted) ==
  [step |-> step, count |-> count, title |-> title, index |-> index,
   total |-> total, inserted |-> inserted]

\* a row an earlier process left in the database file; it carries an ocid
OldRow == TenderRow(1, T_NHS, << "h1", "/t1" >>, "ocds-1", "s", 0, "")

Init ==
  /\ tenders \in { { }, { OldRow } }
  /\ nextId = Cardinality(tenders) + 1
  /\ lastScraped = 0
  /\ sourceStats = << >>
  /\ organisations = { }
  /\ tagRules \in { defaultTagRules, MalformedTagRules }
  /\ clock = 1
  /\ run = [r \in Procs |-> Idle]
  /\ events = [r \in Procs |-> << >>]
  /\ started = 0
  /\ direct = 0
  /\ lastCall = NoCall
  /\ obs = [r \in Procs |-> NoObs]
  /\ eff = [r \in Procs |-> NoEff]
  /\ storedFrom = { }
  /\ completed = << >>
  /\ runAll = NoAll
  /\ allLog = << >>
  /\ cfgSources = sources
  /\ keyOrder = << "default", "b", "c" >>
  /\ dbSources = << >>
  /\ sourceStatus = << >>
  /\ resp = NoResp
  /\ reqs = 0
  /\ fn = NoFn
  /\ pending = << >>
  /\ jobs = << Job(DefaultCron) >>
  /\ cronSchedule = DefaultCron
  /\ dbCron = NULL
  /\ tenderColumns = StartupColumns
  /\ resets = 0

\* the tag of an event runAll passes on: a source key, or the object that the
\* event's own source property holds
KeyTag(k) == [isKey |-> TRUE, key |-> k]
ObjTag == [isKey |-> FALSE, key |-> NULL]

\* runAll: progress = p => onProgress({ source: key, ...p }); the properties
\* of p come after source: key, and the 'start' event of runInternal has a
\* source property of its own (the source object)
progress(key, p) ==
  [source |-> IF p.step = "start" THEN ObjTag ELSE KeyTag(key),
   step |-> p.step, by |-> key]

\* A step of run r together with the record of what it did to the store, of
\* the result it returned without error, and, for the run runAll awaits, of the
\* event its step passed to runAll's progress
Track(r, A) ==
  /\ A
  /\ eff' = [eff EXCEPT ![r] =
       [wrote      |-> @.wrote \/ store' # store,
        insertedBy |-> @.insertedBy + (Cardinality(tenders') - Cardinality(tenders))]]
  /\ completed' =
       IF run'[r].pc = "done" /\ ~run'[r].result.error
       THEN Append(completed, [key |-> run[r].sourceKey,
                               added |-> run'[r].result.added,
                               stored |-> sourceStats' # sourceStats])
       ELSE completed
  /\ allLog' =
       IF r = "manual" /\ runAll.pc = "running" /\ runAll.cb
          /\ Len(events'[r]) > Len(events[r])
       THEN Append(allLog, progress(runAll.keys[runAll.idx], events'[r][Len(events'[r])]))
       ELSE allLog

\* --------------------------------------------------------------- runInternal
\* the catch of runInternal: { added: 0, error: err }
Failed(l) == [l EXCEPT !.pc = "done",
                       !.result = [returned |-> TRUE, added |-> 0, error |-> TRUE]]

\* onProgress(...) is called inside the try of runInternal with nothing
\* around it: whether the call that follows the sent ones raises (raiseAt is
\* the number of the call at which the consumer raises, 0 for one that never
\* does)
Raises(l, sent) == l.cb /\ l.raiseAt = Len(sent) + 1

\* run(onProgress, source, sourceKey) up to its first await: the 'start'
\* event, then fetch(src.url) is pending; or the return from the catch when
\* the consumer raised on 'start'
BeginRunWith(r, key, src, cb, raiseAt) ==
  LET l == [Idle EXCEPT !.pc = "fetching", !.sourceKey = key, !.src = src,
                        !.cb = cb, !.nextUrl = src.url, !.raiseAt = raiseAt]
  IN
  /\ run[r].pc \in { "idle", "done" }
  /\ run' = [run EXCEPT ![r] = IF Raises(l, << >>) THEN Failed(l) ELSE l]
  /\ events' = [events EXCEPT ![r] =
       IF cb THEN << Ev("start", 0, << >>, 0, 0, FALSE) >> ELSE << >>]
  /\ obs' = [obs EXCEPT ![r] = [NoObs EXCEPT !.cbFault = Raises(l, << >>)]]
  /\ eff' = [eff EXCEPT ![r] = NoEff]
  /\ UNCHANGED << tenders, nextId, lastScraped, sourceStats, organisations,
                  tagRules, clock, direct, lastCall, storedFrom, completed >>

\* a run whose consumer, if it has one, never raises (send of the stream
\* routes of index.js: res.write)
BeginRun(r, key, src, cb) == BeginRunWith(r, key, src, cb, 0)

\* a run started by the cron job or by a request for one source
StartRun(r, key, src, cb) ==
  /\ started < MaxRunsTotal
  /\ started' = started + 1
  /\ BeginRun(r, key, src, cb)
  /\ UNCHANGED << runAll, allLog, http >>

\* scheduleJob: a job that has not been stopped fires and its callback calls
\* scrape.run() with no argument
CronTick ==
  /\ \E n \in 1..Len(jobs) : jobs[n].running
  /\ StartRun("cron", "default", fallbackSource, FALSE)

\* GET /scrape-stream?source=key: run(progress => send(progress), source, key)
ManualScrape ==
  \E key \in SourceKeys : StartRun("manual", key, sources[key], TRUE)

\* run(onProgress, source, key) called with a consumer of the caller's own:
\* one that returns from every call, or raises at its raiseAt-th call
RunWithConsumer ==
  /\ started < MaxRunsTotal
  /\ started' = started + 1
  /\ \E key \in SourceKeys, raiseAt \in 0..MaxRaiseAt :
       BeginRunWith("manual", key, sources[key], TRUE, raiseAt)
  /\ UNCHANGED << runAll, allLog, http >>

\* Accumulate that puts the records of a page in front of the earlier ones
AccumulateInFront(acc, recs) == recs \o acc

\* allTenders.push(...pageTenders)
Accumulate(acc, recs) == acc \o recs

\* one turn of while (nextUrl): the page arrives, its records are appended,
\* the next URL is worked out (the next-page hrefs of Web all resolve); after
\* the last page the 'found' event and the run timestamp
FetchOk(r) ==
  LET l   == run[r]
      pg  == Web(l.nextUrl)
      all == Accumulate(l.allTenders, pg.recs)
      nxt == IF pg.next = NoNext THEN NoUrl ELSE ResolveUrl(pg.next, l.src.base)
  IN
  /\ l.pc = "fetching"
  /\ l.page <= MaxFetches
  /\ IF nxt # NoUrl
     THEN /\ run' = [run EXCEPT ![r] =
               [l EXCEPT !.allTenders = all, !.nextUrl = nxt, !.page = @ + 1]]
          /\ obs' = [obs EXCEPT ![r].fetched = Append(@, l.nextUrl)]
          /\ UNCHANGED << events, clock >>
     ELSE IF Raises(l, events[r])
     THEN /\ run' = [run EXCEPT ![r] =
               Failed([l EXCEPT !.allTenders = all, !.nextUrl = NoUrl,
                                !.page = @ + 1])]
          /\ obs' = [obs EXCEPT ![r].fetched = Append(@, l.nextUrl),
                                ![r].cbFault = TRUE]
          /\ events' = [events EXCEPT ![r] =
               Append(@, Ev("found", Len(all), << >>, 0, 0, FALSE))]
          /\ UNCHANGED clock
     ELSE /\ run' = [run EXCEPT ![r] =
               [l EXCEPT !.allTenders = all, !.nextUrl = NoUrl, !.page = @ + 1,
                         !.pc = "persisting", !.count = 0, !.total = Len(all),
                         !.runTs = clock, !.i = 1]]
          /\ obs' = [obs EXCEPT ![r].fetched = Append(@, l.nextUrl)]
          /\ events' = [events EXCEPT ![r] =
               IF l.cb THEN Append(@, Ev("found", Len(all), << >>, 0, 0, FALSE))
               ELSE @]
          /\ clock' = clock + 1
  /\ UNCHANGED << tenders, nextId, lastScraped, sourceStats, organisations,
                  tagRules, started, direct, lastCall, storedFrom, runAll, http >>

\* FetchFail that also stores a completion timestamp
FetchFailSavesTs(r) ==
  LET l == run[r] IN
  /\ l.pc = "fetching"
  /\ l.page <= MaxFetches
  /\ run' = [run EXCEPT ![r] = Failed(l)]
  /\ obs' = [obs EXCEPT ![r].fetched = Append(@, l.nextUrl),
                        ![r].fetchFailed = TRUE]
  /\ lastScraped' = clock
  /\ UNCHANGED << tenders, nextId, sourceStats, organisations,
                  tagRules, clock, events, started, direct, lastCall, storedFrom, runAll, http >>

\* fetch(nextUrl) or res.text() rejects: the catch of runInternal
FetchFail(r) ==
  LET l == run[r] IN
  /\ l.pc = "fetching"
  /\ l.page <= MaxFetches
  /\ run' = [run EXCEPT ![r] = Failed(l)]
  /\ obs' = [obs EXCEPT ![r].fetched = Append(@, l.nextUrl),
                        ![r].fetchFailed = TRUE]
  /\ UNCHANGED << tenders, nextId, lastScraped, sourceStats, organisations,
                  tagRules, clock, events, started, direct, lastCall, storedFrom, runAll, http >>

\* The loop for (const [i, tender] of allTenders.entries()), one record a step.
\* link and tags of the record at hand: computed outside the inner try
LinkOf(l) == ResolveUrl(l.allTenders[l.i].link, l.src.base)
TagsOf(l, rules) ==
  generateTags(l.allTenders[l.i].title, l.allTenders[l.i].desc, rules)

\* RowOf with scrapedAt taken anew for every record
RowOfStampedNow(l, id, rules) ==
  TenderRow(id, l.allTenders[l.i].title, LinkOf(l), NULL, l.src.label,
            clock, join(TagsOf(l, rules)))

\* the row db.insertTender is asked to store: seven arguments, ocid left at
\* its default null
RowOf(l, id, rules) ==
  TenderRow(id, l.allTenders[l.i].title, LinkOf(l), NULL, l.src.label,
            l.runTs, join(TagsOf(l, rules)))

\* the onProgress call that ends a turn of the loop
TenderEvent(l, inserted) ==
  Ev("tender", 0, l.allTenders[l.i].title, l.i, l.total, inserted)

\* new URL(tender.link, src.base) or generateTags throws: the outer catch
PersistThrows(r) ==
  LET l == run[r] IN
  /\ l.pc = "persisting"
  /\ l.i <= l.total
  /\ LinkOf(l) = InvalidUrl \/ TagsOf(l, tagRules) = TagError
  /\ run' = [run EXCEPT ![r] = Failed(l)]
  /\ obs' = [obs EXCEPT ![r].recFault = TRUE]
  /\ UNCHANGED << tenders, nextId, lastScraped, sourceStats, organisations,
                  tagRules, clock, events, started, direct, lastCall, storedFrom, runAll, http >>

\* the INSERT of db.insertTender can be prepared: the table has every column
\* the statement names
Writable == InsertColumns \subseteq tenderColumns

\* OrgAttempted with the test of inserted left out
OrgAttemptedAlways(inserted, org) == org # ""

\* if (inserted) { ... if (organisation) await db.insertOrganisation(...) }
OrgAttempted(inserted, org) == inserted # 0 /\ org # ""

\* db.insertTender resolves with this.changes; when a row was inserted and the
\* record names an organisation, db.insertOrganisation is awaited (orgOk:
\* whether it resolves; a rejection is logged)
PersistStored(r) ==
  LET l        == run[r]
      row      == RowOf(l, nextId, tagRules)
      inserted == Changes(tenders, row)
      org      == l.allTenders[l.i].organisation
  IN
  /\ l.pc = "persisting"
  /\ l.i <= l.total
  /\ LinkOf(l) # InvalidUrl /\ TagsOf(l, tagRules) # TagError
  /\ Writable
  /\ tenders' = InsertOrIgnore(tenders, row)
  /\ nextId' = nextId + (Cardinality(tenders') - Cardinality(tenders))
  /\ \E orgOk \in BOOLEAN :
       /\ organisations' = IF OrgAttempted(inserted, org) /\ orgOk
                           THEN organisations \cup { << org, "customer" >> }
                           ELSE organisations
       /\ obs' = [obs EXCEPT
            ![r].attempts = @ + 1,
            ![r].cbFault = Raises(l, events[r]),
            ![r].orgTried = IF OrgAttempted(inserted, org) THEN @ \cup { l.i } ELSE @,
            ![r].orgErrs  = IF OrgAttempted(inserted, org) /\ ~orgOk
                            THEN @ \cup { l.i } ELSE @]
  /\ run' = [run EXCEPT ![r] =
       LET l2 == [l EXCEPT !.count = @ + (IF inserted # 0 THEN 1 ELSE 0)]
       IN  IF Raises(l, events[r]) THEN Failed(l2) ELSE [l2 EXCEPT !.i = @ + 1]]
  /\ events' = [events EXCEPT ![r] =
       IF l.cb THEN Append(@, TenderEvent(l, inserted # 0)) ELSE @]
  /\ storedFrom' =
       IF tenders' # tenders
       THEN storedFrom \cup { [link |-> row.link, ocid |-> l.allTenders[l.i].ocid] }
       ELSE storedFrom
  /\ UNCHANGED << lastScraped, sourceStats, tagRules, clock, started, direct,
                  lastCall, runAll, http >>

\* PersistRejected without the inner try: the rejection reaches the outer catch
PersistRejectedRethrow(r) ==
  LET l == run[r] IN
  /\ l.pc = "persisting"
  /\ l.i <= l.total
  /\ LinkOf(l) # InvalidUrl /\ TagsOf(l, tagRules) # TagError
  /\ run' = [run EXCEPT ![r] = Failed(l)]
  /\ obs' = [obs EXCEPT ![r].attempts = @ + 1, ![r].storeErrs = @ \cup { l.i }]
  /\ UNCHANGED << tenders, nextId, lastScraped, sourceStats, organisations,
                  tagRules, clock, events, started, direct, lastCall, storedFrom, runAll, http >>

\* db.insertTender rejects, for an input/output error or because the table
\* lacks a column the statement names: the inner catch logs it, inserted
\* stays 0, the 'tender' event is sent and the loop goes on
PersistRejected(r) ==
  LET l == run[r] IN
  /\ l.pc = "persisting"
  /\ l.i <= l.total
  /\ LinkOf(l) # InvalidUrl /\ TagsOf(l, tagRules) # TagError
  /\ run' = [run EXCEPT ![r] =
       IF Raises(l, events[r]) THEN Failed(l) ELSE [l EXCEPT !.i = @ + 1]]
  /\ events' = [events EXCEPT ![r] =
       IF l.cb THEN Append(@, TenderEvent(l, FALSE)) ELSE @]
  /\ obs' = [obs EXCEPT
       ![r].attempts = @ + 1,
       ![r].cbFault = Raises(l, events[r]),
       ![r].storeErrs = @ \cup { l.i },
       ![r].notPresent = IF Conflicts(tenders, RowOf(l, nextId, tagRules))
                         THEN @ ELSE @ \cup { l.i }]
  /\ UNCHANGED << tenders, nextId, lastScraped, sourceStats, organisations,
                  tagRules, clock, started, direct, lastCall, storedFrom, runAll, http >>

\* the line the completed run logs about its outcome:
\*   "noTenders"      No tenders were returned for <label>
\*   "allDuplicates"  <n> tenders found on <label> but all were duplicates
\*   "inserted"       Inserted <count> new tenders from <label>
Report(count, n) ==
  IF count = 0
  THEN (IF n = 0 THEN "noTenders" ELSE "allDuplicates")
  ELSE "inserted"

\* after the loop: setLastScraped(runTs), then updateSourceStats(sourceKey,
\* runTs, count), both inside one try; return { added: count }.
\*   out = "ok"        both statements are stored
\*   out = "tsErr"     setLastScraped rejects, updateSourceStats is skipped
\*   out = "statsErr"  updateSourceStats rejects
Complete(r) ==
  LET l == run[r] IN
  /\ l.pc = "persisting"
  /\ l.i > l.total
  /\ \E out \in { "ok", "tsErr", "statsErr" } :
       /\ lastScraped' = IF out = "tsErr" THEN lastScraped ELSE l.runTs
       /\ sourceStats' =
            IF out = "ok"
            THEN updateSourceStats(sourceStats, l.sourceKey, l.runTs, l.count)
            ELSE sourceStats
       /\ obs' = [obs EXCEPT ![r].tsFault = (out = "tsErr"),
                             ![r].tsSaved = (lastScraped' = l.runTs)]
  /\ run' = [run EXCEPT ![r] =
       [l EXCEPT !.pc = "done",
                 !.report = Report(l.count, Len(l.allTenders)),
                 !.result = [returned |-> TRUE, added |-> l.count, error |-> FALSE]]]
  /\ UNCHANGED << tenders, nextId, organisations, tagRules, clock, events,
                  started, direct, lastCall, storedFrom, runAll, http >>

\* -------------------------------------------------------------------- runAll
\* f with key k set to v (results[key] = ..., config.sources[key] = ...)
Put(f, k, v) == [x \in DOMAIN f \cup { k } |-> IF x = k THEN v ELSE f[x]]

\* results[key] = { added: res.added, error: res.error && res.error.message }
ResultEntry(res) ==
  [added |-> res.added, error |-> IF res.error THEN "message" ELSE NULL]

\* MoreSources of a loop that ends at the first source whose run failed
MoreSourcesUnlessError(res, idx, n) == idx < n /\ ~res.error

\* for (const [key, src] of Object.entries(config.sources)): whether another
\* entry follows the one at idx
MoreSources(res, idx, n) == idx < n

\* runAll(onProgress) up to the first await of the first runInternal: the
\* entries of config.sources are listed, progress is built for the first key
\* and runInternal(progress, key, src) sends its 'start' event.
\*   cb = FALSE  GET /scrape-all         scrape.runAll()
\*   cb = TRUE   GET /scrape-all-stream  scrape.runAll(p => send(p))
AllStart ==
  \E cb \in BOOLEAN :
    /\ runAll.pc = "idle"
    /\ Len(keyOrder) > 0
    /\ BeginRun("manual", keyOrder[1], cfgSources[keyOrder[1]], TRUE)
    /\ runAll' = [pc |-> "running", cb |-> cb, keys |-> keyOrder, idx |-> 1,
                  results |-> << >>]
    /\ allLog' = IF cb THEN << progress(keyOrder[1], events'["manual"][1]) >>
                 ELSE << >>
    /\ UNCHANGED << started, http >>

\* the awaited runInternal has returned: its entry of results is written and
\* the loop goes on to the next source, or runAll returns results
AllNext ==
  LET res == run["manual"].result
      key == runAll.keys[runAll.idx]
      out == Put(runAll.results, key, ResultEntry(res))
  IN
  /\ runAll.pc = "running"
  /\ run["manual"].pc = "done"
  /\ IF MoreSources(res, runAll.idx, Len(runAll.keys))
     THEN LET nxt == runAll.keys[runAll.idx + 1] IN
          /\ BeginRun("manual", nxt, cfgSources[nxt], TRUE)
          /\ runAll' = [runAll EXCEPT !.idx = @ + 1, !.results = out]
          /\ allLog' = IF runAll.cb
                       THEN Append(allLog, progress(nxt, events'["manual"][1]))
                       ELSE allLog
     ELSE /\ runAll' = [runAll EXCEPT !.pc = "done", !.results = out]
          /\ UNCHANGED << tenders, nextId, lastScraped, sourceStats, organisations,
                          tagRules, clock, run, events, direct, lastCall, obs, eff,
                          storedFrom, completed, allLog >>
  /\ UNCHANGED << started, http >>

\* ------------------------------------------------- db.insertTender, directly
\* the argument lists of direct calls: a link, an ocid and a title each
DirectArgs ==
  { [link |-> << "h1", "/t1" >>, ocid |-> "ocds-1", title |-> T_NHS],
    [link |-> << "h9", "/x" >>,  ocid |-> "ocds-1", title |-> T_Rd],
    [link |-> << "h9", "/x" >>,  ocid |-> NULL,     title |-> T_IT],
    [link |-> << "h9", "/y" >>,  ocid |-> NULL,     title |-> T_IT],
    [link |-> << "h9", "/y" >>,  ocid |-> "ocds-2", title |-> T_Rd] }

\* db.insertTender(title, link, ..., ocid) called by a user of the module
\* other than the scraper (test/db.test.js, test/migration.test.js); dbOk:
\* whether the statement is answered or rejected
CallInsertTender ==
  /\ direct < MaxDirect
  /\ \E a \in DirectArgs, dbOk \in BOOLEAN :
       LET row == TenderRow(nextId, a.title, a.link, a.ocid, "s", 0, "") IN
       /\ tenders' = IF dbOk /\ Writable THEN InsertOrIgnore(tenders, row)
                     ELSE tenders
       /\ nextId' = nextId + (Cardinality(tenders') - Cardinality(tenders))
       /\ lastCall' = [link |-> a.link, ocid |-> a.ocid, title |-> a.title,
                       ret |-> IF ~dbOk THEN "err"
                               ELSE IF ~Writable THEN "noColumn"
                               ELSE IF Changes(tenders, row) = 1 THEN "1" ELSE "0"]
  /\ direct' = direct + 1
  /\ UNCHANGED << lastScraped, sourceStats, organisations, tagRules, clock, run,
                  events, started, obs, eff, storedFrom, completed, runAll, allLog,
                  http >>

\* ------------------------------------------------------- routes of index.js
\* Origins h1 and h2 are https:// origins, h0 is an http:// origin.
HttpsOrigins == { "h1", "h2" }

\* the JSON bodies sent to POST /sources and PUT /sources/:key
Bodies ==
  { [key |-> "d", label |-> "D", url |-> << "h1", "/p2" >>, base |-> "h1"],
    [key |-> "d", label |-> "D", url |-> << "h0", "/p1" >>, base |-> "h0"],
    [key |-> "d", label |-> "D", url |-> << "h1", "/p2" >>, base |-> "h0"],
    [key |-> "b", label |-> "B", url |-> << "h0", "/p1" >>, base |-> "h0"],
    [key |-> "",  label |-> "D", url |-> << "h1", "/p2" >>, base |-> "h1"] }

\* !key || !label || !url || !base, and the same without key
MissingFields(body, withKey) ==
  (withKey /\ body.key = "") \/ body.label = "" \/ body.url = << >> \/ body.base = ""

SourceOf(body) == [label |-> body.label, url |-> body.url, base |-> body.base]

\* a request that has reached its await of a database statement
Req(route, authed, key, body, schedule) ==
  [route |-> route, authed |-> authed, key |-> key, body |-> body,
   schedule |-> schedule]

Answer(route, authed, body, status, effect) ==
  [route |-> route, authed |-> authed, body |-> body, status |-> status,
   effect |-> effect]

\* what a route leaves alone of the scraper and the store
scraper == << tenders, nextId, lastScraped, sourceStats, organisations, tagRules,
             clock, run, events, started, direct, lastCall, obs, eff, storedFrom,
             completed, runAll, allLog >>

\* f without key k (delete config.sources[key], DELETE FROM ... WHERE key = ?)
Without(f, k) == [x \in DOMAIN f \ { k } |-> f[x]]

\* the keys of an object after obj[k] = v: a new key comes last
KeysWith(order, k) ==
  IF \E n \in 1..Len(order) : order[n] = k THEN order ELSE Append(order, k)

\* POST /sources up to its await: no middleware precedes the handler; authed
\* is whether the request carries a logged-in session.  A body with a missing
\* field or a key config.sources has is answered 400; otherwise
\* db.insertSource is issued
PostSources ==
  /\ reqs < MaxRequests
  /\ reqs' = reqs + 1
  /\ \E authed \in BOOLEAN, body \in Bodies :
       IF MissingFields(body, TRUE) \/ body.key \in DOMAIN cfgSources
       THEN /\ resp' = Answer("POST /sources", authed, body, 400, FALSE)
            /\ UNCHANGED pending
       ELSE /\ pending' = Append(pending,
                                 Req("POST /sources", authed, body.key, body, ""))
            /\ UNCHANGED resp
  /\ UNCHANGED << scraper, cfgSources, keyOrder, dbSources, sourceStatus, fn, admin,
                  schema >>

\* POST /sources after its await: INSERT OR IGNORE INTO sources has run (a row
\* of the key stays as it is) and config.sources[key] is set; or the
\* statement was rejected and the answer is 500
SourceInserted ==
  /\ Len(pending) > 0
  /\ Head(pending).route = "POST /sources"
  /\ pending' = Tail(pending)
  /\ \E dbOk \in BOOLEAN :
       LET q == Head(pending) IN
       IF dbOk
       THEN /\ dbSources' = IF q.key \in DOMAIN dbSources THEN dbSources
                            ELSE Put(dbSources, q.key, SourceOf(q.body))
            /\ cfgSources' = Put(cfgSources, q.key, SourceOf(q.body))
            /\ keyOrder' = KeysWith(keyOrder, q.key)
            /\ resp' = Answer("POST /sources", q.authed, q.body, 200, TRUE)
       ELSE /\ resp' = Answer("POST /sources", q.authed, q.body, 500, FALSE)
            /\ UNCHANGED << cfgSources, keyOrder, dbSources >>
  /\ UNCHANGED << scraper, sourceStatus, reqs, fn, admin, schema >>

\* PUT /sources/:key up to its await: 404 for a key config.sources lacks, 400
\* for a body with a missing field; otherwise db.updateSource is issued
PutSource ==
  /\ reqs < MaxRequests
  /\ reqs' = reqs + 1
  /\ \E authed \in BOOLEAN, key \in { "b", "d", "zz" }, body \in Bodies :
       IF key \notin DOMAIN cfgSources
       THEN /\ resp' = Answer("PUT /sources", authed, body, 404, FALSE)
            /\ UNCHANGED pending
       ELSE IF MissingFields(body, FALSE)
       THEN /\ resp' = Answer("PUT /sources", authed, body, 400, FALSE)
            /\ UNCHANGED pending
       ELSE /\ pending' = Append(pending, Req("PUT /sources", authed, key, body, ""))
            /\ UNCHANGED resp
  /\ UNCHANGED << scraper, cfgSources, keyOrder, dbSources, sourceStatus, fn, admin,
                  schema >>

\* PUT /sources/:key after its await: UPDATE sources ... WHERE key = ? has run
\* (it changes the row of the key when there is one) and config.sources[key]
\* is set; or the statement was rejected and the answer is 500
SourceUpdated ==
  /\ Len(pending) > 0
  /\ Head(pending).route = "PUT /sources"
  /\ pending' = Tail(pending)
  /\ \E dbOk \in BOOLEAN :
       LET q == Head(pending) IN
       IF dbOk
       THEN /\ dbSources' = IF q.key \in DOMAIN dbSources
                            THEN [dbSources EXCEPT ![q.key] = SourceOf(q.body)]
                            ELSE dbSources
            /\ cfgSources' = Put(cfgSources, q.key, SourceOf(q.body))
            /\ keyOrder' = KeysWith(keyOrder, q.key)
            /\ resp' = Answer("PUT /sources", q.authed, q.body, 200, TRUE)
       ELSE /\ resp' = Answer("PUT /sources", q.authed, q.body, 500, FALSE)
            /\ UNCHANGED << cfgSources, keyOrder, dbSources >>
  /\ UNCHANGED << scraper, sourceStatus, reqs, fn, admin, schema >>

\* DELETE /sources/:key up to its await: 404 for a key config.sources lacks;
\* otherwise db.deleteSource is issued
DeleteSource ==
  /\ reqs < MaxRequests
  /\ reqs' = reqs + 1
  /\ \E authed \in BOOLEAN, key \in { "b", "d" } :
       IF key \notin DOMAIN cfgSources
       THEN /\ resp' = Answer("DELETE /sources", authed, NoBody, 404, FALSE)
            /\ UNCHANGED pending
       ELSE /\ pending' = Append(pending,
                                 Req("DELETE /sources", authed, key, NoBody, ""))
            /\ UNCHANGED resp
  /\ UNCHANGED << scraper, cfgSources, keyOrder, dbSources, sourceStatus, fn, admin,
                  schema >>

\* DELETE /sources/:key after its await: db.deleteSource deletes the row of
\* sources, then the row of source_stats, and config.sources[key] is deleted.
\*   out = "ok"    both statements ran
\*   out = "err1"  DELETE FROM sources was rejected
\*   out = "err2"  DELETE FROM source_stats was rejected, after the first ran
SourceDeleted ==
  /\ Len(pending) > 0
  /\ Head(pending).route = "DELETE /sources"
  /\ pending' = Tail(pending)
  /\ \E out \in { "ok", "err1", "err2" } :
       LET q == Head(pending) IN
       /\ dbSources' = IF out = "err1" THEN dbSources ELSE Without(dbSources, q.key)
       /\ sourceStats' = IF out = "ok" THEN Without(sourceStats, q.key)
                         ELSE sourceStats
       /\ cfgSources' = IF out = "ok" THEN Without(cfgSources, q.key) ELSE cfgSources
       /\ keyOrder' = IF out = "ok"
                      THEN SelectSeq(keyOrder, LAMBDA k : k # q.key) ELSE keyOrder
       /\ resp' = Answer("DELETE /sources", q.authed, NoBody,
                         IF out = "ok" THEN 200 ELSE 500, out = "ok")
  /\ UNCHANGED << tenders, nextId, lastScraped, organisations, tagRules, clock, run,
                  events, started, direct, lastCall, obs, eff, storedFrom, completed,
                  runAll, allLog, sourceStatus, reqs, fn, admin, schema >>

\* GET /test-source?key=...: the first page of the source is fetched
GetTestSource ==
  /\ reqs < MaxRequests
  /\ reqs' = reqs + 1
  /\ \E authed \in BOOLEAN, key \in { "b", "zz" }, fetchOk \in BOOLEAN :
       IF key \notin DOMAIN cfgSources
       THEN /\ resp' = Answer("GET /test-source", authed, NoBody, 404, FALSE)
            /\ UNCHANGED sourceStatus
       ELSE /\ sourceStatus' = Put(sourceStatus, key, IF fetchOk THEN "ok" ELSE "error")
            /\ resp' = Answer("GET /test-source", authed, NoBody,
                              IF fetchOk THEN 200 ELSE 500, TRUE)
  /\ UNCHANGED << scraper, cfgSources, keyOrder, dbSources, fn, pending, admin,
                  schema >>

\* GET /scrape?source=key up to the first await of the run: the source is
\* looked up (an unknown key falls back to config.sources.default) and
\* scrape.run(null, source, sourceKey) is called
GetScrape ==
  /\ reqs < MaxRequests
  /\ reqs' = reqs + 1
  /\ started < MaxRunsTotal
  /\ started' = started + 1
  /\ \E authed \in BOOLEAN, key \in { "d", "zz" } :
       /\ BeginRun("manual", key,
                   IF key \in DOMAIN cfgSources THEN cfgSources[key]
                   ELSE cfgSources["default"], FALSE)
       /\ resp' = Answer("GET /scrape", authed, NoBody, 0, TRUE)
  /\ UNCHANGED << runAll, allLog, cfgSources, keyOrder, dbSources, sourceStatus, fn,
                  pending, admin, schema >>

\* GET /scrape: the run has returned, res.json({ added: newTenders })
ScrapeAnswered ==
  /\ resp.route = "GET /scrape" /\ resp.status = 0
  /\ run["manual"].pc = "done"
  /\ resp' = [resp EXCEPT !.status = 200]
  /\ UNCHANGED << scraper, cfgSources, keyOrder, dbSources, sourceStatus, reqs, fn,
                  pending, admin, schema >>

\* ------------------------------------------------------ POST /admin/reset-db
\* POST /admin/reset-db: requireAuth, then db.reset() drops and recreates
\* every table inside one db.serialize block (the statements are queued
\* together, ahead of any statement issued later)
PostResetDb ==
  /\ reqs < MaxRequests
  /\ reqs' = reqs + 1
  /\ \E authed \in BOOLEAN :
       IF ~authed
       THEN /\ resp' = Answer("POST /admin/reset-db", authed, NoBody, 302, FALSE)
            /\ UNCHANGED << tenders, nextId, lastScraped, sourceStats, organisations,
                            storedFrom, dbSources, dbCron, tenderColumns, resets >>
       ELSE /\ tenders' = { }
            /\ nextId' = 1
            /\ lastScraped' = 0
            /\ sourceStats' = << >>
            /\ organisations' = { }
            /\ storedFrom' = { }
            /\ dbSources' = << >>
            /\ dbCron' = NULL
            /\ tenderColumns' = ResetColumns
            /\ resets' = resets + 1
            /\ resp' = Answer("POST /admin/reset-db", authed, NoBody, 200, TRUE)
  /\ UNCHANGED << tagRules, clock, run, events, started, direct, lastCall, obs, eff,
                  completed, runAll, allLog, cfgSources, keyOrder, sourceStatus, fn,
                  pending, jobs, cronSchedule >>

\* ---------------------------------------------------------- POST /admin/cron
\* the expressions sent as req.body.schedule; '' stands for a body without one
Schedules == { DefaultCron, "*/5 * * * *", "61 * * * *", "" }

\* cron.validate of node-cron
validate(schedule) == schedule \in { DefaultCron, "*/5 * * * *" }

\* scheduleJob that leaves the job in place running
scheduleJobNoStop(js, schedule) == Append(js, Job(schedule))

\* scheduleJob(): if (scheduledJob) scheduledJob.stop(); scheduledJob =
\* cron.schedule(config.cronSchedule, ...)
scheduleJob(js, schedule) ==
  Append([n \in 1..Len(js) |->
            IF n = Len(js) THEN [js[n] EXCEPT !.running = FALSE] ELSE js[n]],
         Job(schedule))

\* POST /admin/cron up to its await: requireAuth redirects a request without
\* a session to /login; a missing or invalid expression is answered 400;
\* otherwise db.setCronSchedule(schedule) is issued
PostAdminCron ==
  /\ reqs < MaxRequests
  /\ reqs' = reqs + 1
  /\ \E authed \in BOOLEAN, schedule \in Schedules :
       IF ~authed
       THEN /\ resp' = Answer("POST /admin/cron", authed, NoBody, 302, FALSE)
            /\ UNCHANGED pending
       ELSE IF schedule = "" \/ ~validate(schedule)
       THEN /\ resp' = Answer("POST /admin/cron", authed, NoBody, 400, FALSE)
            /\ UNCHANGED pending
       ELSE /\ pending' = Append(pending,
                                 Req("POST /admin/cron", authed, "", NoBody, schedule))
            /\ UNCHANGED resp
  /\ UNCHANGED << scraper, cfgSources, keyOrder, dbSources, sourceStatus, fn, admin,
                  schema >>

\* POST /admin/cron after its await: setCronSchedule has stored the expression,
\* config.cronSchedule is set and scheduleJob() replaces the job; or it has
\* rejected and the answer is 500
CronStored ==
  /\ Len(pending) > 0
  /\ Head(pending).route = "POST /admin/cron"
  /\ pending' = Tail(pending)
  /\ \E dbOk \in BOOLEAN :
       LET q == Head(pending) IN
       IF dbOk
       THEN /\ dbCron' = q.schedule
            /\ cronSchedule' = q.schedule
            /\ jobs' = scheduleJob(jobs, q.schedule)
            /\ resp' = Answer("POST /admin/cron", q.authed, NoBody, 200, TRUE)
       ELSE /\ resp' = Answer("POST /admin/cron", q.authed, NoBody, 500, FALSE)
            /\ UNCHANGED admin
  /\ UNCHANGED << scraper, cfgSources, keyOrder, dbSources, sourceStatus, reqs, fn,
                  schema >>

\* ------------------------------------------- runInternal: the next-page hint
\* A page as the three regular expressions of the loop see it: its <link> and
\* <a> elements in document order, each with its attributes in source order
\* and, for an anchor, the text that follows its start tag.  Attribute values
\* and text are sequences of one-character strings; "&raquo;" stands for that
\* entity.  No href holds '&amp;'.
At(name, value) == [name |-> name, value |-> value]
Elem(tag, attrs, text) == [tag |-> tag, attrs |-> attrs, text |-> text]

T_next  == << "n", "e", "x", "t" >>
T_Next  == << "N", "e", "x", "t" >>
T_Steps == << "N", "e", "x", "t", " ", "s", "t", "e", "p", "s" >>
T_Two   == << "2" >>

NextEls ==
  { Elem("link", << At("rel", T_next), At("href", Rel("/p2")) >>, << >>),
    Elem("link", << At("href", Rel("/p3")), At("rel", T_next) >>, << >>),
    Elem("a", << At("class", T_next), At("href", Abs("h2", "/p4")) >>, T_Two),
    Elem("a", << At("href", Rel("/p5")), At("class", T_next) >>, T_Two),
    Elem("a", << At("href", Rel("/p6")) >>, T_Next),
    Elem("a", << At("href", Rel("/p7")) >>, T_Steps),
    Elem("a", << At("href", Rel("/p8")) >>, << " ", "&raquo;" >>),
    Elem("a", << At("href", Rel("/p9")) >>, T_Two) }

NextPages == UNION { [1..n -> NextEls] : n \in 0..MaxEls }

\* the value of href when it is the attribute at position j of e
HrefAt(e, j) == e.attrs[j].name = "href"

\* /<link[^>]*rel=["']?next["']?[^>]*href=["']([^"']+)["']/i matches in e:
\* rel=next, and an href after it in the same tag
RelNextIn(e) ==
  /\ e.tag = "link"
  /\ \E n, j \in 1..Len(e.attrs) :
        /\ n < j /\ HrefAt(e, j)
        /\ e.attrs[n].name = "rel"
        /\ Len(e.attrs[n].value) >= 4
        /\ toLowerCase(SubSeq(e.attrs[n].value, 1, 4)) = T_next

\* /<a[^>]*(?:rel|class|aria-label)=["'][^"']*next[^"']*["'][^>]*href=.../i
\* matches in e: such an attribute whose value holds 'next', and an href
\* after it in the same tag
AttrNextIn(e) ==
  /\ e.tag = "a"
  /\ \E n, j \in 1..Len(e.attrs) :
        /\ n < j /\ HrefAt(e, j)
        /\ e.attrs[n].name \in { "rel", "class", "aria-label" }
        /\ includes(toLowerCase(e.attrs[n].value), T_next)

\* str with its leading white space removed
RECURSIVE SkipSpace(_)
SkipSpace(str) ==
  IF Len(str) > 0 /\ str[1] = " " THEN SkipSpace(Tail(str)) ELSE str

\* /<a[^>]*href=["']([^"']+)["'][^>]*>(?:\s*Next\s*|...|&gt;|&raquo;)/i
\* matches in e: an href, and text right after the start tag that begins with
\* 'Next' after optional white space, or with a glyph
TextNextIn(e) ==
  /\ e.tag = "a"
  /\ \E j \in 1..Len(e.attrs) : HrefAt(e, j)
  /\ \/ LET t == SkipSpace(e.text)
         IN  Len(t) >= 4 /\ toLowerCase(SubSeq(t, 1, 4)) = T_next
     \/ Len(e.text) > 0 /\ e.text[1] \in { "&gt;", "&raquo;" }

\* the capture group of a match in e: the href of the tag
HrefOf(e) == e.attrs[CHOOSE j \in 1..Len(e.attrs) : HrefAt(e, j)].value

\* html.match(re), given for each element of the page whether re matches in
\* it: the first element in which it does, 0 for no match
FirstMatch(hits) ==
  IF \E n \in 1..Len(hits) : hits[n]
  THEN CHOOSE n \in 1..Len(hits) : hits[n] /\ \A m \in 1..(n - 1) : ~hits[m]
  ELSE 0

\* href = relNext ? relNext[1] : attrNext ? attrNext[1] : textNext ?
\* textNext[1] : null
nextHref(html) ==
  LET relNext  == FirstMatch([n \in 1..Len(html) |-> RelNextIn(html[n])])
      attrNext == FirstMatch([n \in 1..Len(html) |-> AttrNextIn(html[n])])
      textNext == FirstMatch([n \in 1..Len(html) |-> TextNextIn(html[n])])
  IN  IF relNext # 0 THEN HrefOf(html[relNext])
      ELSE IF attrNext # 0 THEN HrefOf(html[attrNext])
      ELSE IF textNext # 0 THEN HrefOf(html[textNext])
      ELSE NoNext

\* nextUrl = href ? new URL(href, src.base).href : null
nextUrlOf(html, base) ==
  IF nextHref(html) = NoNext THEN NoUrl ELSE ResolveUrl(nextHref(html), base)

\* ------------------------------------------------------------ pure calls
\* the next-page step of the loop of runInternal applied to a fetched page
\* (one call a behaviour)
CallNextUrl ==
  /\ fn.op = "none"
  /\ \E html \in NextPages, base \in { "h1", "h2" } :
       fn' = [op |-> "nextUrl", arg |-> [html |-> html, base |-> base],
              out |-> nextUrlOf(html, base)]
  /\ UNCHANGED << tenders, nextId, lastScraped, sourceStats, organisations,
                  tagRules, clock, run, events, started, direct, lastCall, obs,
                  eff, storedFrom, completed, runAll, allLog, cfgSources,
                  keyOrder, dbSources, sourceStatus, resp, reqs, pending, admin,
                  schema >>

\* parseTenders(html, site) called on a page (one call a behaviour)
CallParseTenders ==
  /\ fn.op = "none"
  /\ \E html \in Pages, site \in Sites :
       fn' = [op |-> "parseTenders", arg |-> [html |-> html, site |-> site],
              out |-> parseTenders(html, site)]
  /\ UNCHANGED << tenders, nextId, lastScraped, sourceStats, organisations,
                  tagRules, clock, run, events, started, direct, lastCall, obs,
                  eff, storedFrom, completed, runAll, allLog, cfgSources,
                  keyOrder, dbSources, sourceStatus, resp, reqs, pending, admin,
                  schema >>

\* generateTags(title, desc) called under some config.tagRules (one call a
\* behaviour)
CallGenerateTags ==
  /\ fn.op = "none"
  /\ \E title \in Texts, desc \in Texts, rules \in TagRuleSets :
       fn' = [op |-> "generateTags",
              arg |-> [title |-> title, desc |-> desc, rules |-> rules],
              out |-> generateTags(title, desc, rules)]
  /\ UNCHANGED << tenders, nextId, lastScraped, sourceStats, organisations,
                  tagRules, clock, run, events, started, direct, lastCall, obs,
                  eff, storedFrom, completed, runAll, allLog, cfgSources,
                  keyOrder, dbSources, sourceStatus, resp, reqs, pending, admin,
                  schema >>

\* -------------------------------------------------------------- behaviours
\* the scraper: the cron job and a manual request, each running runInternal
Next ==
  \/ CronTick
  \/ ManualScrape
  \/ \E r \in Procs : Track(r, FetchOk(r))
  \/ \E r \in Procs : Track(r, FetchFail(r))
  \/ \E r \in Procs : Track(r, PersistThrows(r))
  \/ \E r \in Procs : Track(r, PersistStored(r))
  \/ \E r \in Procs : Track(r, PersistRejected(r))
  \/ \E r \in Procs : Track(r, Complete(r))

Spec == Init /\ [][Next]_vars

\* runAll called once, its runs one after another
NextAll ==
  \/ AllStart
  \/ AllNext
  \/ Track("manual", FetchOk("manual"))
  \/ Track("manual", FetchFail("manual"))
  \/ Track("manual", PersistThrows("manual"))
  \/ Track("manual", PersistStored("manual"))
  \/ Track("manual", PersistRejected("manual"))
  \/ Track("manual", Complete("manual"))

SpecAll == Init /\ [][NextAll]_vars

\* the routes that manage and test sources and trigger a scrape
NextHttp ==
  \/ PostSources
  \/ SourceInserted
  \/ PutSource
  \/ SourceUpdated
  \/ DeleteSource
  \/ SourceDeleted
  \/ GetTestSource
  \/ GetScrape
  \/ ScrapeAnswered
  \/ Track("manual", FetchOk("manual"))
  \/ Track("manual", FetchFail("manual"))
  \/ Track("manual", PersistThrows("manual"))
  \/ Track("manual", PersistStored("manual"))
  \/ Track("manual", PersistRejected("manual"))
  \/ Track("manual", Complete("manual"))

SpecHttp == Init /\ [][NextHttp]_vars

\* runs whose progress consumer is any function of the caller
NextCb ==
  \/ RunWithConsumer
  \/ Track("manual", FetchOk("manual"))
  \/ Track("manual", FetchFail("manual"))
  \/ Track("manual", PersistThrows("manual"))
  \/ Track("manual", PersistStored("manual"))
  \/ Track("manual", PersistRejected("manual"))
  \/ Track("manual", Complete("manual"))

SpecCb == Init /\ [][NextCb]_vars

\* the store reset by the admin and used directly
NextReset ==
  \/ PostResetDb
  \/ CallInsertTender

SpecReset == Init /\ [][NextReset]_vars

\* the routes that manage sources, their requests in flight together
NextSources ==
  \/ PostSources
  \/ SourceInserted
  \/ PutSource
  \/ SourceUpdated
  \/ DeleteSource
  \/ SourceDeleted

SpecSources == Init /\ [][NextSources]_vars

\* the cron schedule changed at run time
NextCron ==
  \/ PostAdminCron
  \/ CronStored

SpecCron == Init /\ [][NextCron]_vars

\* the next-page step on its own
NextPaging == CallNextUrl

SpecPaging == Init /\ [][NextPaging]_vars

\* the parser on its own: calls of parseTenders
NextParse == CallParseTenders

SpecParse == Init /\ [][NextParse]_vars

\* the tag classifier on its own: calls of generateTags
NextTags == CallGenerateTags

SpecTags == Init /\ [][NextTags]_vars

\* the store used directly: sequences of db.insertTender calls
NextDb == CallInsertTender

SpecDb == Init /\ [][NextDb]_vars

\* ------------------------------------------------------------------ claims

\* C1: in every reachable state the tenders table holds no two rows with the
\* same link and no two rows with the same non-null ocid.
C1_UniqueLinkAndOcid ==
  \A a, b \in tenders :
     a # b => /\ a.link # b.link
              /\ (a.ocid # NULL => a.ocid # b.ocid)

\* C1 witness: both runs are persisting at the same time, one of them has had
\* an insert ignored, and the table holds several rows, one with an ocid.
C1_Witness ==
  /\ \A r \in Procs : run[r].pc = "persisting" /\ obs[r].attempts > 0
  /\ \E r \in Procs :
        obs[r].attempts > eff[r].insertedBy + Cardinality(obs[r].storeErrs)
  /\ Cardinality(tenders) >= 2
  /\ \E t \in tenders : t.ocid # NULL

\* C2: a direct insertTender call that is answered returns 1 and adds exactly
\* its row when no stored row has its link or its non-null ocid; a call that
\* follows a call that returned 1 and repeats that call's link, or its
\* non-null ocid, returns 0 and leaves the table as it is.
C2_InsertIfAbsent ==
  [][ (direct' = direct + 1 /\ lastCall'.ret # "err") =>
        LET a == lastCall'
            fresh == \A t \in tenders :
                        t.link # a.link /\ (a.ocid = NULL \/ t.ocid # a.ocid)
            again == /\ lastCall.ret = "1"
                     /\ \/ a.link = lastCall.link
                        \/ (a.ocid # NULL /\ a.ocid = lastCall.ocid)
        IN  /\ fresh => /\ a.ret = "1"
                        /\ Cardinality(tenders') = Cardinality(tenders) + 1
                        /\ \E t \in tenders' \ tenders :
                              t.link = a.link /\ t.ocid = a.ocid /\ t.title = a.title
            /\ again => a.ret = "0" /\ tenders' = tenders
    ]_vars

\* C2 witness: the last call returned 0 although its link and title are those
\* of no stored row: a stored row has its ocid.
C2_Witness ==
  /\ lastCall.ret = "0"
  /\ lastCall.ocid # NULL
  /\ \E t \in tenders : t.ocid = lastCall.ocid
  /\ \A t \in tenders : t.link # lastCall.link /\ t.title # lastCall.title

\* C3: of the records the scraper extracted with the same non-empty ocid, only
\* one is stored: no two rows stored by runs come from records that share a
\* non-empty ocid.
C3_OneRowPerOcid ==
  \A a, b \in storedFrom :
     (a.ocid # "" /\ a.ocid = b.ocid) => a.link = b.link

\* C4: within one run no URL is fetched twice.
C4_NoRefetch ==
  \A r \in Procs :
     \A m, n \in 1..Len(obs[r].fetched) :
        m # n => obs[r].fetched[m] # obs[r].fetched[n]

\* the URLs reachable from url by next-page links resolved against base
RECURSIVE ReachableFrom(_, _, _)
ReachableFrom(url, base, seen) ==
  IF url \in seen THEN seen
  ELSE IF Web(url).next = NoNext THEN seen \cup { url }
  ELSE ReachableFrom(ResolveUrl(Web(url).next, base), base, seen \cup { url })

\* C5: the fetch phase of a run ends having fetched as many pages as there are
\* distinct URLs reachable from the listing URL: it never fetches more, and
\* once the fetches have all succeeded and the phase is over it has fetched
\* exactly that many.
C5_FetchesDistinctUrls ==
  \A r \in Procs :
     LET n == Cardinality(ReachableFrom(run[r].src.url, run[r].src.base, { })) IN
     /\ Len(obs[r].fetched) <= n
     /\ (run[r].pc = "persisting" => Len(obs[r].fetched) = n)

\* C6: a run with a callback whose page fetches all succeeded has, when it
\* returns, sent exactly: 'start', 'found' with the number of records
\* extracted, and one 'tender' event per record with index 1, 2, ... and total
\* that number.
C6_EventSequence ==
  \A r \in Procs :
     (run[r].pc = "done" /\ run[r].cb /\ ~obs[r].fetchFailed) =>
        LET e == events[r]
            n == Len(run[r].allTenders)
        IN  /\ Len(e) = n + 2
            /\ e[1].step = "start"
            /\ e[2].step = "found" /\ e[2].count = n
            /\ \A k \in 1..n :
                  e[k + 2].step = "tender" /\ e[k + 2].index = k /\ e[k + 2].total = n

\* C7: the added count a run returns is the number of rows the run inserted,
\* whether it completed or ended with an error.
C7_AddedIsInserted ==
  \A r \in Procs :
     run[r].result.returned => run[r].result.added = eff[r].insertedBy

\* C8: a record whose insertTender was rejected gets a 'tender' event with
\* inserted = false, and a run in which rejected insertTender calls are the
\* only failures attempts the insertion of every record, stores its timestamp
\* as the last-scraped value and returns without error the number of rows it
\* inserted.
C8_StoreErrorAbsorbed ==
  \A r \in Procs :
     /\ \A k \in obs[r].storeErrs :
           run[r].cb => /\ Len(events[r]) >= k + 2
                        /\ events[r][k + 2].step = "tender"
                        /\ events[r][k + 2].index = k
                        /\ events[r][k + 2].inserted = FALSE
     /\ ( /\ run[r].pc = "done"
          /\ obs[r].storeErrs # { }
          /\ ~obs[r].recFault /\ ~obs[r].tsFault )
        => /\ obs[r].attempts = Len(run[r].allTenders)
           /\ obs[r].tsSaved
           /\ run[r].result = [returned |-> TRUE, added |-> eff[r].insertedBy,
                               error |-> FALSE]

\* C8 witness: a run has returned after the insert of its first record was
\* rejected and a later record was inserted.
C8_Witness ==
  \E r \in Procs :
     /\ run[r].pc = "done"
     /\ obs[r].storeErrs = { 1 }
     /\ ~obs[r].recFault /\ ~obs[r].tsFault
     /\ Len(run[r].allTenders) >= 2
     /\ run[r].result.added >= 1

\* C9: a run ends with a run-level error only when a page fetch failed.
C9_OnlyFetchErrorsEscalate ==
  \A r \in Procs : run[r].result.error => obs[r].fetchFailed

\* C10: a run in which a page fetch failed returns added = 0 with the error,
\* has sent no 'found' and no 'tender' event, and none of its steps changed
\* the tenders table, the last-scraped timestamp or the source statistics.
C10_FetchFailureLeavesStore ==
  \A r \in Procs :
     obs[r].fetchFailed =>
        /\ run[r].pc = "done"
        /\ run[r].result = [returned |-> TRUE, added |-> 0, error |-> TRUE]
        /\ \A k \in 1..Len(events[r]) : events[r][k].step = "start"
        /\ ~eff[r].wrote
        /\ eff[r].insertedBy = 0

\* C10 witness: a run failed on the fetch of its second page while the table
\* held rows and a last-scraped timestamp was stored.
C10_Witness ==
  \E r \in Procs :
     /\ obs[r].fetchFailed
     /\ Len(obs[r].fetched) = 2
     /\ tenders # { }
     /\ lastScraped # 0

\* position of key k in the order of config.sources
KeyPos(k) == CHOOSE n \in 1..Len(keyOrder) : keyOrder[n] = k

\* C11: runAll returns one entry for each configured source key; while it
\* runs, the entries written are those of the sources before the one being
\* run; the entry of a source whose run failed is added = 0 with an error
\* message, the entry of any other source is its added count without error,
\* and writing an entry changes no other entry.
C11_OneEntryPerSource ==
  /\ [](/\ runAll.pc = "done" => DOMAIN runAll.results = DOMAIN cfgSources
        /\ runAll.pc = "running" =>
             /\ run["manual"].sourceKey = runAll.keys[runAll.idx]
             /\ DOMAIN runAll.results =
                  { runAll.keys[j] : j \in 1..(runAll.idx - 1) })
  /\ [][ runAll'.results # runAll.results =>
           LET k == run["manual"].sourceKey
               failed == obs["manual"].fetchFailed \/ obs["manual"].recFault
           IN  /\ run["manual"].pc = "done"
               /\ k \notin DOMAIN runAll.results
               /\ runAll'.results[k] =
                    IF failed THEN [added |-> 0, error |-> "message"]
                    ELSE [added |-> run["manual"].count, error |-> NULL]
               /\ \A x \in DOMAIN runAll.results :
                     runAll'.results[x] = runAll.results[x]
       ]_vars

\* C11 witness: runAll has returned; the run of the second source failed, the
\* run of the first source added a row, and the third source was run after
\* the failure: a row of it is stored.
C11_Witness ==
  /\ runAll.pc = "done"
  /\ runAll.results["b"].error # NULL
  /\ runAll.results["default"].added > 0
  /\ \E t \in tenders : t.source = "C"

\* C12: every event runAll passes on carries the key of the source whose run
\* sent it, and the events are in configuration order of their sources: no
\* event of a source comes before an event of an earlier source.
C12_EventsTaggedInOrder ==
  /\ \A n \in 1..Len(allLog) : allLog[n].source = KeyTag(allLog[n].by)
  /\ \A m, n \in 1..Len(allLog) :
        m < n => KeyPos(allLog[m].by) <= KeyPos(allLog[n].by)

\* a run is writing: between its first insertTender call and its completion
Writing(r) == run[r].pc = "persisting" /\ obs[r].attempts > 0

\* C13: at most one run is writing to the store at any moment.
C13_OneWriter ==
  \A r1, r2 \in Procs : (Writing(r1) /\ Writing(r2)) => r1 = r2

\* C14: a step of a run attempts insertOrganisation only for a record that
\* names an organisation and whose tender row the step has just inserted; when
\* that attempt fails, the step still counts the tender, sends its 'tender'
\* event with inserted = true and leaves the run at the next record.
C14_OrganisationBestEffort ==
  [][ \A r \in Procs :
        /\ \A k \in obs'[r].orgTried \ obs[r].orgTried :
              /\ k = run[r].i
              /\ run[r].allTenders[k].organisation # ""
              /\ Cardinality(tenders') = Cardinality(tenders) + 1
        /\ \A k \in obs'[r].orgErrs \ obs[r].orgErrs :
              /\ k \in obs'[r].orgTried
              /\ organisations' = organisations
              /\ run'[r].count = run[r].count + 1
              /\ run'[r].pc = "persisting" /\ run'[r].i = k + 1
              /\ run[r].cb => /\ Len(events'[r]) = Len(events[r]) + 1
                              /\ events'[r][k + 2].step = "tender"
                              /\ events'[r][k + 2].index = k
                              /\ events'[r][k + 2].inserted = TRUE
    ]_vars

\* C14 witness: a run has returned its added count, at least 1, after the
\* organisation insert of its first record failed; a run has also met a
\* record that names an organisation and was a duplicate, with no attempt.
C14_Witness ==
  /\ \E r \in Procs :
        /\ run[r].pc = "done" /\ ~run[r].result.error
        /\ 1 \in obs[r].orgErrs
        /\ run[r].result.added >= 1
  /\ \E r \in Procs :
        /\ run[r].i > 1
        /\ run[r].allTenders[1].organisation # ""
        /\ 1 \notin obs[r].orgTried /\ 1 \notin obs[r].storeErrs

\* the sum of the added counts of the runs of key among the first n of seq
\* (all of them, or only those whose statistics were stored)
RECURSIVE SumAdded(_, _, _, _)
SumAdded(seq, key, n, onlyStored) ==
  IF n = 0 THEN 0
  ELSE SumAdded(seq, key, n - 1, onlyStored)
       + (IF seq[n].key = key /\ (seq[n].stored \/ ~onlyStored)
          THEN seq[n].added ELSE 0)

\* the positions in completed of the runs of key (stored ones only, or all)
RunsOf(key, onlyStored) ==
  { n \in 1..Len(completed) :
      completed[n].key = key /\ (completed[n].stored \/ ~onlyStored) }

\* the greatest element of a non-empty set of numbers
Last(S) == CHOOSE n \in S : \A m \in S : m <= n

C18_ZeroAddedReport ==
  \A r \in Procs :
     (run[r].pc = "done" /\ ~run[r].result.error /\ run[r].result.added = 0) =>
        /\ run[r].report = "noTenders" <=> Len(run[r].allTenders) = 0
        /\ run[r].report = "allDuplicates" <=>
             (Len(run[r].allTenders) > 0 /\ obs[r].notPresent = { })

\* C16: every record parseTenders returns, for any site and page, has a
\* non-empty title and a non-empty link.
C16_TitleAndLinkRequired ==
  fn.op = "parseTenders" =>
     \A n \in 1..Len(fn.out) :
        Len(fn.out[n].title) > 0 /\ Len(fn.out[n].link) > 0

\* keyword k occurs in text, letter case ignored on both sides
OccursIgnoringCase(text, k) ==
  \E off \in 0..(Len(text) - Len(k)) :
     \A n \in 1..Len(k) : LowerChar(text[off + n]) = LowerChar(k[n])

IsHttps(src) == src.url[1] \in HttpsOrigins /\ src.base \in HttpsOrigins

\* C19: every configured source and every row of the sources table has an
\* HTTPS url and base, and a POST /sources or PUT /sources/:key whose url or
\* base is not HTTPS is answered 400 and changes neither.
C19_HttpsSourcesOnly ==
  /\ \A k \in DOMAIN cfgSources : IsHttps(cfgSources[k])
  /\ \A k \in DOMAIN dbSources : IsHttps(dbSources[k])
  /\ (resp.route \in { "POST /sources", "PUT /sources" } /\ ~IsHttps(resp.body))
       => (resp.status = 400 /\ ~resp.effect)

\* C20: a POST /sources, GET /scrape or GET /test-source request without a
\* logged-in session is answered 401 and has no effect.
C20_UnauthenticatedRejected ==
  (resp.route \in { "POST /sources", "GET /scrape", "GET /test-source" }
   /\ ~resp.authed)
     => (resp.status = 401 /\ ~resp.effect)

\* C21: a run whose page fetches have all succeeded and whose records are all
\* well formed has, when it returns, attempted the insertion of every record
\* it accumulated and returns without error, whatever its progress consumer
\* did.
C21_NoMidRunAbort ==
  \A r \in Procs :
     ( /\ run[r].pc = "done"
       /\ Len(obs[r].fetched) > 0 /\ ~obs[r].fetchFailed
       /\ run[r].nextUrl = NoUrl
       /\ ~obs[r].recFault )
     => /\ obs[r].attempts = Len(run[r].allTenders)
        /\ ~run[r].result.error

\* C22: no step of a scrape run modifies or deletes a stored tender row: every
\* row in the table before the step is in it, with the same field values,
\* after the step.
C22_ExistingRowsKept ==
  [][ tenders \subseteq tenders' ]_vars

\* C22 witness: a run has had its insert of link h1/t3 answered while a row of
\* that link was stored with another title, other tags and another source;
\* the row is as it was.
C22_Witness ==
  \E r \in Procs, t \in tenders :
     /\ run[r].sourceKey = "c" /\ run[r].i > 2 /\ 2 \notin obs[r].storeErrs
     /\ t.link = << "h1", "/t3" >>
     /\ t.title = T_Rd /\ t.tags = "it" /\ t.source = "CF"
     /\ run[r].allTenders[2].title = T_NHS
     /\ ResolveUrl(run[r].allTenders[2].link, run[r].src.base) = t.link

\* C23: every row a step of a run inserts carries the run's timestamp as
\* scraped_at, the timestamp of a run stays the same from its first insert to
\* its return, and the completing step writes that same value as the global
\* last-scraped timestamp and as last_scraped of the source's statistics.
C23_OneTimestampPerRun ==
  [][ \A r \in Procs :
        run'[r] # run[r] =>
          /\ \A t \in tenders' \ tenders : t.scraped_at = run[r].runTs
          /\ run[r].pc = "persisting" => run'[r].runTs = run[r].runTs
          /\ lastScraped' # lastScraped => lastScraped' = run[r].runTs
          /\ (run'[r].pc = "done" /\ ~run'[r].result.error /\ ~obs'[r].tsFault)
               => lastScraped' = run[r].runTs
          /\ sourceStats' # sourceStats =>
               /\ sourceStats'[run[r].sourceKey].last_scraped = run[r].runTs
               /\ lastScraped' = run[r].runTs
    ]_vars

\* C23 witness: a run has returned after inserting two rows; both carry its
\* timestamp, which is the stored last-scraped value and last_scraped of its
\* source, while the table also holds a row inserted by the other run.
C23_Witness ==
  \E r \in Procs :
     /\ run[r].pc = "done" /\ run[r].result.added = 2
     /\ Cardinality({ t \in tenders : t.scraped_at = run[r].runTs }) = 2
     /\ lastScraped = run[r].runTs
     /\ run[r].sourceKey \in DOMAIN sourceStats
     /\ sourceStats[run[r].sourceKey].last_scraped = run[r].runTs
     /\ \E t \in tenders : t.scraped_at \notin { 0, run[r].runTs }

\* the records of the first n pages of a list of fetched URLs, page by page
RECURSIVE RecsOfPages(_, _)
RecsOfPages(urls, n) ==
  IF n = 0 THEN << >> ELSE RecsOfPages(urls, n - 1) \o Web(urls[n]).recs

\* C24: a run that has called insertTender has fetched its last page and, when
\* it has a consumer, has sent 'found' as its second event; the records it
\* holds are those of the pages that arrived, page after page in page order,
\* and its k-th insertTender call is for the k-th of them.
C24_FetchAllThenPersistInOrder ==
  /\ [](\A r \in Procs :
          /\ run[r].allTenders =
               RecsOfPages(obs[r].fetched,
                           Len(obs[r].fetched) - (IF obs[r].fetchFailed THEN 1 ELSE 0))
          /\ obs[r].attempts > 0 =>
               /\ run[r].nextUrl = NoUrl /\ ~obs[r].fetchFailed
               /\ run[r].cb => (Len(events[r]) >= 2 /\ events[r][2].step = "found"))
  /\ [][ \A r \in Procs :
           obs'[r].attempts = obs[r].attempts + 1 =>
             /\ run[r].i = obs[r].attempts + 1
             /\ obs'[r].fetched = obs[r].fetched
             /\ run'[r].allTenders = run[r].allTenders
             /\ run[r].cb => (Len(events[r]) >= 2 /\ events[r][2].step = "found")
             /\ \A t \in tenders' \ tenders :
                   /\ t.link = ResolveUrl(run[r].allTenders[run[r].i].link, run[r].src.base)
                   /\ t.title = run[r].allTenders[run[r].i].title
       ]_vars

\* C24 witness: a run with a consumer fetched two pages with a record each and
\* has inserted both: the row of the first page has the smaller id.
C24_Witness ==
  \E r \in Procs :
     /\ run[r].cb /\ Len(obs[r].fetched) = 2 /\ obs[r].attempts = 2
     /\ run[r].allTenders = << R1, R3 >>
     /\ \E a, b \in tenders :
           /\ a.link = << "h1", "/t1" >> /\ b.link = << "h1", "/t3" >>
           /\ a.scraped_at = run[r].runTs /\ b.scraped_at = run[r].runTs
           /\ a.id < b.id

\* a <link> element with rel=next and an href
IsRelNextLink(e) ==
  /\ e.tag = "link"
  /\ \E n, j \in 1..Len(e.attrs) :
        e.attrs[n].name = "rel" /\ e.attrs[n].value = T_next /\ HrefAt(e, j)

\* an anchor with an href whose rel, class or aria-label mentions 'next'
IsAttrNextAnchor(e) ==
  /\ e.tag = "a"
  /\ \E n, j \in 1..Len(e.attrs) :
        /\ e.attrs[n].name \in { "rel", "class", "aria-label" }
        /\ includes(toLowerCase(e.attrs[n].value), T_next)
        /\ HrefAt(e, j)

\* an anchor with an href whose visible text is 'Next' or a next glyph
IsTextNextAnchor(e) ==
  /\ e.tag = "a"
  /\ \E j \in 1..Len(e.attrs) : HrefAt(e, j)
  /\ trim(e.text) \in { T_Next, << "&gt;" >>, << "&raquo;" >> }

\* C25: the next page URL is the href, resolved against the base, of the
\* first rel=next link element of the page if it has one, else of the first
\* anchor whose rel, class or aria-label mentions 'next', else of the first
\* anchor whose visible text is 'Next' or a next glyph; with none of them
\* there is no next URL.
C25_NextByPriority ==
  fn.op = "nextUrl" =>
     LET html == fn.arg.html
         rel  == FirstMatch([n \in 1..Len(html) |-> IsRelNextLink(html[n])])
         attr == FirstMatch([n \in 1..Len(html) |-> IsAttrNextAnchor(html[n])])
         text == FirstMatch([n \in 1..Len(html) |-> IsTextNextAnchor(html[n])])
     IN  fn.out = IF rel # 0 THEN ResolveUrl(HrefOf(html[rel]), fn.arg.base)
                  ELSE IF attr # 0 THEN ResolveUrl(HrefOf(html[attr]), fn.arg.base)
                  ELSE IF text # 0 THEN ResolveUrl(HrefOf(html[text]), fn.arg.base)
                  ELSE NoUrl

\* the jobs that have not been stopped
Running == { n \in 1..Len(jobs) : jobs[n].running }

\* a step in which a POST /admin/cron request is turned down: answered 400
\* before its await, or 500 after it
CronTurnedDown ==
  /\ resp'.route = "POST /admin/cron" /\ resp'.status \in { 400, 500 }
  /\ reqs' # reqs \/ pending' # pending

DiscoveredLinks(r) ==
  { ResolveUrl(run[r].allTenders[k].link, run[r].src.base) :
      k \in 1..Len(run[r].allTenders) } \ { InvalidUrl }

\* C27: when the cron run and the manual run have both returned, neither
\* having had a page fetch fail or an insert rejected by the store, the tag
\* rules being well formed, and they discovered links in common: each such
\* link is stored exactly once; when it was not stored before the runs,
\* exactly one of the two runs inserted it; and the added counts of the two
\* runs sum to the number of rows the two runs created.
C27_OverlappingRunsShareInserts ==
  LET common == DiscoveredLinks("cron") \cap DiscoveredLinks("manual") IN
  ( /\ \A r \in Procs :
          run[r].pc = "done" /\ obs[r].storeErrs = { } /\ ~obs[r].fetchFailed
    /\ \A n \in 1..Len(tagRules) : tagRules[n].isArray
    /\ common # { } )
  => /\ \A ln \in common : Cardinality({ t \in tenders : t.link = ln }) = 1
     /\ \A ln \in common : \A t \in tenders :
           (t.link = ln /\ t.scraped_at # 0) =>
              Cardinality({ r \in Procs : run[r].runTs = t.scraped_at }) = 1
     /\ run["cron"].result.added + run["manual"].result.added
          = eff["cron"].insertedBy + eff["manual"].insertedBy

\* C28: no step moves the stored last-scraped timestamp backwards, neither
\* metadata.last_scraped nor last_scraped of a source's statistics, and the
\* step in which a run completes and stores its timestamp leaves
\* metadata.last_scraped no smaller than the timestamp of that run.
C28_LastScrapedMonotonic ==
  [][ /\ lastScraped' >= lastScraped
      /\ \A k \in DOMAIN sourceStats :
            k \in DOMAIN sourceStats' =>
               sourceStats'[k].last_scraped >= sourceStats[k].last_scraped
      /\ \A r \in Procs :
            (run[r].pc = "persisting" /\ run'[r].pc = "done"
             /\ ~run'[r].result.error /\ ~obs'[r].tsFault)
            => lastScraped' >= run[r].runTs
    ]_vars

\* C29: after db.reset() has completed, a db.insertTender call that meets no
\* input/output error and whose link and ocid are those of no stored row
\* returns 1 and adds its row, with the fields it was given.
C29_UsableAfterReset ==
  [][ (direct' = direct + 1 /\ resets > 0 /\ lastCall'.ret # "err") =>
        LET a == lastCall'
            fresh == \A t \in tenders :
                        t.link # a.link /\ (a.ocid = NULL \/ t.ocid # a.ocid)
        IN  fresh => /\ a.ret = "1"
                     /\ \E t \in tenders' \ tenders :
                           t.link = a.link /\ t.ocid = a.ocid /\ t.title = a.title
    ]_vars

\* the keys a request names or a table holds
RouteKeys == SourceKeys \cup { "d", "zz" } \cup DOMAIN cfgSources \cup DOMAIN dbSources

\* key k was created, changed or deleted through the routes: it is not a
\* source of config.js left as config.js defines it
ThroughRoutes(k) ==
  k \notin SourceKeys \/ k \notin DOMAIN cfgSources \/ cfgSources[k] # sources[k]

\* C30: once no request to POST /sources, PUT /sources/:key or
\* DELETE /sources/:key is in flight, every key created or changed through
\* these routes has the same definition in config.sources and in the sources
\* table and is absent from one exactly when it is absent from the other; and
\* a request answered 500 leaves config.sources as it was.
C30_RegistryMatchesTable ==
  /\ [](pending = << >> =>
          \A k \in RouteKeys :
             ThroughRoutes(k) =>
               /\ k \in DOMAIN cfgSources <=> k \in DOMAIN dbSources
               /\ k \in DOMAIN cfgSources => cfgSources[k] = dbSources[k])
  /\ [][ (resp' # resp /\ resp'.status = 500) => cfgSources' = cfgSources ]_vars

====
